---- MODULE Spec2Model ----
(***************************************************************************)
(* Model of the stock-target bot of src/main.py: the in-memory registry    *)
(* user_targets, the message table user_messages, the slash commands and   *)
(* view buttons that change them, and the periodic task auto_check with    *)
(* run_user_check, cut at its await points (price fetch, user fetch,       *)
(* technical levels, send).  Everything runs on one asyncio event loop, so *)
(* the code between two awaits is one atomic action.                       *)
(*                                                                         *)
(* Prices, targets and percentages are integers; the band comparison       *)
(*   target * (1 + p/100)   is computed as   target * (100 + p) / 100      *)
(* on both sides multiplied by 100.  For the values drawn here             *)
(* (target 100; p in 0, 5; prices 95, 100, 105) the float comparison of   *)
(* the source gives the same verdicts.                                     *)
(*                                                                         *)
(* calculate_technical_levels is an operator on the historical rows, its   *)
(* prices in hundredths as round(x, 2) leaves them; SpecLevels runs it on  *)
(* its own over all frames of at most MaxBars rows.                        *)
(*                                                                         *)
(* SpecCommands runs the interactions without the periodic task, which     *)
(* leaves room for one interaction more (MaxCmdsAlone): a set, a delete    *)
(* and the submit of an edit form in a row.                                *)
(***************************************************************************)
EXTENDS Integers, Sequences, FiniteSets, TLC

\* ------------------------------------------------------------------ bounds
MaxCycles == 2
MaxCmds == 2
\* interactions handled at most when the periodic task is left out
MaxCmdsAlone == 3
\* minutes an iteration of auto_check may start late by
MaxLate == 1
\* rows of the historical data at most
MaxBars == 2

\* --------------------------------------------------------- program constants
DefaultThreshold == 5
RegularPeriod == 5
MinThreshold == 0
MaxThreshold == 100

\* Python's None where a price is expected (prices are positive)
None == -1

\* an optional command argument: <<v>> when given, <<>> when left out
Arg(v) == <<v>>
NoArg == <<>>
ArgOr(arg, default) == IF arg = NoArg THEN default ELSE arg[1]

Users == {1, 2}
Symbols == {"ABC", "XYZ"}
SymbolInputs == {"abc", "ABC", "XYZ"}
TargetInputs == {100}
TriggerChoices == {NoArg, Arg("below"), Arg("above")}
ThresholdInputs == {NoArg, Arg(0), Arg(101), Arg(-1)}
NumberTexts == {"100", "abc"}
\* the condition field of the edit form, as words: "raka" is the prefix
\* 'ราคา', "tamkwa" is 'ต่ำกว่า' and "sungkwa" is 'สูงกว่า'
ConditionTexts == { <<"tamkwa">>, <<"raka", "tamkwa">>,
                    <<"raka", "sungkwa">>, <<"sungkwa">> }
Prices == {95, 100, 105}
\* what the price fetch of the set command gives: nothing, or some quote
SetQuotes == {None, 100}
\* now.minute at the first iteration of auto_check
StartMinutes == {4, 5}
\* minutes from the start of one iteration to the start of the next: one when
\* the iteration ended within its 60 seconds, more when its awaits took longer
Elapsed == 1..(1 + MaxLate)

\* str.upper() on the symbol argument
Upper(s) == IF s = "abc" THEN "ABC" ELSE s

\* str(uid), the key type of user_roles
Str(uid) == IF uid = 1 THEN "1" ELSE "2"

\* user_roles, filled in as its comment says: user 2 is VIP1, and user 1,
\* who is not in it, is 'regular' as every user of the shipped empty table is
user_roles == [k \in {"2"} |-> "VIP1"]

\* ------------------------------------------------- insertion-ordered dicts
\* a dict is a sequence of <<key, value>> pairs in insertion order
Keys(d) == { d[i][1] : i \in 1..Len(d) }
Has(d, k) == k \in Keys(d)
IndexOf(d, k) == CHOOSE i \in 1..Len(d) : d[i][1] = k
Get(d, k) == d[IndexOf(d, k)][2]
Put(d, k, v) ==
    IF Has(d, k) THEN [d EXCEPT ![IndexOf(d, k)] = <<k, v>>]
    ELSE Append(d, <<k, v>>)
Del(d, k) == SelectSeq(d, LAMBDA kv : kv[1] # k)

\* ------------------------------------------------------- technical levels
\* prices of the historical bars, in hundredths: 90.00, 100.00, 110.00
BarPrices == {9000, 10000, 11000}

\* one row of ticker.history(period="6mo", interval="1d")
Bar(high, low, close) == [High |-> high, Low |-> low, Close |-> close]

Bars ==
    { Bar(h, l, c) : h \in BarPrices, l \in BarPrices, c \in BarPrices }

\* a row of real data: Low <= Close <= High
DailyBars == { b \in Bars : b.Low <= b.Close /\ b.Close <= b.High }

\* the DataFrames of at most MaxBars rows, oldest row first
Frames == UNION { [1..n -> DailyBars] : n \in 0..MaxBars }

\* what fetch_historical_data_blocking returns: <<>> for None (the fetch
\* raised), else <<data>> with the DataFrame data, which may be empty
Histories == {<<>>} \cup { <<rows>> : rows \in Frames }

\* float('nan'): the mean of a rolling window that is not full
NaN == "nan"

\* round(n / 3, 2) of a number n of hundredths, n >= 0 (thirds never tie)
RoundThird(n) == (2 * n + 3) \div 6

\* data['High'].max() and data['Low'].min()
MaxHigh(rows) ==
    CHOOSE h \in { rows[i].High : i \in 1..Len(rows) } :
        \A i \in 1..Len(rows) : rows[i].High <= h
MinLow(rows) ==
    CHOOSE l \in { rows[i].Low : i \in 1..Len(rows) } :
        \A i \in 1..Len(rows) : l <= rows[i].Low

\* data['tr'].rolling(window=14).mean().iloc[-1]: the true range of the first
\* row is NaN (Close.shift() is), and a window of fewer than 14 values has no
\* mean, so for the frames drawn here (MaxBars rows) the result is NaN
RollingMeanTR(rows) == NaN

\* calculate_technical_levels on the result of fetch_historical_data_blocking:
\* <<>> for None, else <<levels>>.  Values are hundredths, as round(x, 2)
\* leaves them; p_point = (High + Low + Close) / 3, so
\* s1_pivot = 2 * p_point - High = (2 * sum3 - 3 * High) / 3.  The volume
\* profile (poc, va_low, va_high) is computed after these from Close and
\* Volume alone and is left out.
calculate_technical_levels(history) ==
    IF history = <<>> \/ history[1] = <<>>
    THEN <<>>
    ELSE LET rows == history[1]
             last_day == rows[Len(rows)]
             sum3 == last_day.High + last_day.Low + last_day.Close
             high_fib == MaxHigh(rows)
             low_fib == MinLow(rows)
             fib_range == high_fib - low_fib
         IN << [pivot_s1 |-> RoundThird(2 * sum3 - 3 * last_day.High),
                pivot_r1 |-> RoundThird(2 * sum3 - 3 * last_day.Low),
                fib_s1 |-> high_fib - (382 * fib_range) \div 1000,
                fib_r1 |-> low_fib + (382 * fib_range) \div 1000,
                atr_s1 |-> RollingMeanTR(rows),
                atr_r1 |-> RollingMeanTR(rows)] >>

VARIABLES
    user_targets,    \* dict uid -> dict symbol -> target data
    user_messages,   \* dict (uid, symbol) -> message handle
    views,           \* (owner, symbol) pairs a StockView was sent for
    response,        \* what the last interaction was answered with
    dm,              \* the direct messages sent by the bot, oldest first
    deleted,         \* handles (positions in dm) delete() was called on
    pc,              \* where auto_check is: "idle" or the await it is in
    current_minute,  \* auto_check's now.minute, of the latest iteration
    outer_items,     \* auto_check's list(user_targets.items()), as uids
    outer_idx,       \* position in outer_items
    targets_items,   \* run_user_check's list(targets.items())
    inner_idx,       \* position in targets_items
    cur,             \* the evaluation run_user_check is in: <<e>>, or <<>>
    last,            \* the evaluation that ended last: <<e>>, or <<>>
    fetched,         \* per symbol: price fetches of this iteration of auto_check
    streak,          \* per target: handles of the unbroken run of notifications
    registered,      \* per target: every data record ever stored for it
    raised,          \* auto_check ended with an exception
    cycle,           \* iterations of auto_check started
    ncmds,           \* interactions handled
    interaction_user, \* interaction.user.id of the one handled last, or 0
    history,         \* the historical data a levels computation is given
    levels,          \* its result: <<>> before the call, <<result>> after
    cmd_bound        \* interactions the run handles at most

vars == <<user_targets, user_messages, views, response,
          dm, deleted, pc, current_minute, outer_items, outer_idx,
          targets_items, inner_idx, cur, last, fetched, streak, registered,
          raised, cycle, ncmds, interaction_user, history, levels,
          cmd_bound>>

\* the state of the bot: everything but the levels computation on its own
botvars == <<user_targets, user_messages, views, response,
             dm, deleted, pc, current_minute, outer_items, outer_idx,
             targets_items, inner_idx, cur, last, fetched, streak,
             registered, raised, cycle, ncmds, interaction_user>>

loopvars == <<pc, current_minute, outer_items, outer_idx, targets_items,
              inner_idx, cur, last, fetched, raised, cycle, history, levels,
              cmd_bound>>

Pairs == Users \X Symbols

NoStreak == [approaching |-> <<>>, reached |-> <<>>]

\* what an interaction is answered with: the kind of the answer and, where
\* the answer names them, the target it is about, the record stored for it
\* and the condition text of the form
ReplyAbout(kind, uid, stock, data, text) ==
    [kind |-> kind, uid |-> uid, stock |-> stock, data |-> data,
     text |-> text]

Reply(kind) == ReplyAbout(kind, 0, "", <<>>, <<>>)

InitBot ==
    /\ user_targets = <<>>
    /\ user_messages = <<>>
    /\ views = {}
    /\ response = Reply("none")
    /\ dm = <<>>
    /\ deleted = {}
    /\ pc = "idle"
    /\ current_minute = 0
    /\ outer_items = <<>>
    /\ outer_idx = 0
    /\ targets_items = <<>>
    /\ inner_idx = 0
    /\ cur = <<>>
    /\ last = <<>>
    /\ fetched = [s \in Symbols |-> 0]
    /\ streak = [p \in Pairs |-> NoStreak]
    /\ registered = [p \in Pairs |-> {}]
    /\ raised = FALSE
    /\ cycle = 0
    /\ ncmds = 0
    /\ interaction_user = 0

Init ==
    /\ InitBot
    /\ history = <<>>
    /\ levels = <<>>
    /\ cmd_bound = MaxCmds

\* ------------------------------------------------------------ the registry
TargetData(target, trigger_type, threshold) ==
    [target |-> target, trigger_type |-> trigger_type,
     alert_threshold_percent |-> threshold]

\* uid in user_targets and stock in user_targets[uid]
IsRegistered(uid, stock) ==
    Has(user_targets, uid) /\ Has(Get(user_targets, uid), stock)

\* a variant that fills in only what the pair has no value for yet
StoreTargetMerge(uid, stock, data) ==
    LET ut == IF Has(user_targets, uid) THEN user_targets
              ELSE Append(user_targets, <<uid, <<>> >>)
        old == Get(ut, uid)
    IN Put(ut, uid, IF Has(old, stock) THEN old ELSE Put(old, stock, data))

\* if uid not in user_targets: user_targets[uid] = {}
\* user_targets[uid][stock] = data
StoreTarget(uid, stock, data) ==
    LET ut == IF Has(user_targets, uid) THEN user_targets
              ELSE Append(user_targets, <<uid, <<>> >>)
    IN Put(ut, uid, Put(Get(ut, uid), stock, data))

\* del user_targets[uid][stock]
RemoveTarget(uid, stock) ==
    Put(user_targets, uid, Del(Get(user_targets, uid), stock))

\* a command on (uid, stock) ends the target's run of notifications
Interrupt(uid, stock) == [streak EXCEPT ![<<uid, stock>>] = NoStreak]

\* one more interaction is handled and answered with r
Answer(r) ==
    /\ ncmds < cmd_bound
    /\ ncmds' = ncmds + 1
    /\ response' = r

\* a variant that stores the target before it looks at the price
SetTargetStoreFirst(uid, sym, target, cond, thr, price) ==
    LET stock == Upper(sym)
        trigger_type == ArgOr(cond, "below")
        threshold == ArgOr(thr, DefaultThreshold)
        data == TargetData(target, trigger_type, threshold)
    IN IF threshold < MinThreshold \/ threshold > MaxThreshold
       THEN /\ Answer(Reply("bad_threshold"))
            /\ UNCHANGED <<user_targets, views, streak, registered>>
       ELSE /\ user_targets' = StoreTarget(uid, stock, data)
            /\ streak' = Interrupt(uid, stock)
            /\ registered' =
                 [registered EXCEPT ![<<uid, stock>>] = @ \cup {data}]
            /\ IF price = None
               THEN Answer(Reply("no_price")) /\ UNCHANGED views
               ELSE /\ Answer(ReplyAbout("set_ok", uid, stock, <<data>>, <<>>))
                    /\ views' = views \cup {<<uid, stock>>}

\* /หุ้น ตั้ง : set_target_cmd; price is what async_fetch_price returned
SetTarget(uid, sym, target, cond, thr, price) ==
    LET stock == Upper(sym)
        trigger_type == ArgOr(cond, "below")
        threshold == ArgOr(thr, DefaultThreshold)
        data == TargetData(target, trigger_type, threshold)
    IN IF threshold < MinThreshold \/ threshold > MaxThreshold
       THEN /\ Answer(Reply("bad_threshold"))
            /\ UNCHANGED <<user_targets, views, streak, registered>>
       ELSE IF price = None
       THEN /\ Answer(Reply("no_price"))
            /\ UNCHANGED <<user_targets, views, streak, registered>>
       ELSE /\ Answer(ReplyAbout("set_ok", uid, stock, <<data>>, <<>>))
            /\ user_targets' = StoreTarget(uid, stock, data)
            /\ views' = views \cup {<<uid, stock>>}
            /\ streak' = Interrupt(uid, stock)
            /\ registered' =
                 [registered EXCEPT ![<<uid, stock>>] = @ \cup {data}]

set_target_cmd ==
    \E uid \in Users, sym \in SymbolInputs, target \in TargetInputs,
       cond \in TriggerChoices, thr \in ThresholdInputs,
       price \in SetQuotes :
        /\ SetTarget(uid, sym, target, cond, thr, price)
        /\ interaction_user' = uid
        /\ UNCHANGED <<user_messages, dm, deleted,
                       loopvars>>

\* a variant that lets every user press the buttons of a view
interaction_checkAnyone(owner, clicker) == clicker \in Users

\* StockView.interaction_check: only the view's owner may press its buttons
interaction_check(owner, clicker) == clicker = owner

\* StockView.edit_target: the button that sends the edit form of the view
edit_target ==
    \E v \in views, clicker \in Users :
        /\ IF interaction_check(v[1], clicker)
           THEN Answer(Reply("modal"))
           ELSE Answer(Reply("not_owner"))
        /\ interaction_user' = clicker
        /\ UNCHANGED <<user_targets, user_messages, views, dm,
                       deleted, streak, registered, loopvars>>

\* float(text): the value, or None where float raises ValueError
ParseFloat(text) ==
    IF text = "100" THEN 100 ELSE None

\* text.replace('ราคา', ''): every occurrence of the prefix is dropped
StripRaka(text) == SelectSeq(text, LAMBDA w : w # "raka")

\* trigger_map.get(key, None), with "" for None
trigger_map(key) ==
    IF key = <<"tamkwa">> THEN "below"
    ELSE IF key = <<"raka", "sungkwa">> THEN "above"
    ELSE ""

\* .get(symbol, {}).get('alert_threshold_percent', 5.0) on the user's dict
KeptThreshold(targets, stock) ==
    IF Has(targets, stock) THEN Get(targets, stock).alert_threshold_percent
    ELSE DefaultThreshold

\* EditTargetModal.on_submit of the form opened for (uid, stock)
EditSubmit(uid, stock, number, condition) ==
    LET value == ParseFloat(number)
        trigger == trigger_map(StripRaka(condition))
        targets == IF Has(user_targets, uid) THEN Get(user_targets, uid)
                   ELSE <<>>
        data == TargetData(value, trigger, KeptThreshold(targets, stock))
    IN IF value = None
       THEN /\ Answer(Reply("bad_number"))
            /\ UNCHANGED <<user_targets, streak, registered>>
       ELSE IF trigger = ""
       THEN /\ Answer(ReplyAbout("bad_condition", uid, stock, <<>>,
                               condition))
            /\ UNCHANGED <<user_targets, streak, registered>>
       ELSE /\ Answer(ReplyAbout("edit_ok", uid, stock, <<data>>,
                               condition))
            /\ user_targets' = StoreTarget(uid, stock, data)
            /\ streak' = Interrupt(uid, stock)
            /\ registered' =
                 [registered EXCEPT ![<<uid, stock>>] = @ \cup {data}]

\* the form is the one edit_target sent for a view, at any time before, to a
\* user who passed the view's interaction_check: the bot keeps nothing about
\* an open form, and a form once sent stays usable
on_submit ==
    \E m \in views, clicker \in Users,
       number \in NumberTexts, condition \in ConditionTexts :
        /\ interaction_check(m[1], clicker)
        /\ EditSubmit(m[1], m[2], number, condition)
        /\ interaction_user' = clicker
        /\ UNCHANGED <<user_messages, views, dm, deleted,
                       loopvars>>

\* what old_msg.delete() does: done, discord.NotFound, or another exception
DeleteOutcomes == {"ok", "NotFound", "error"}

\* a variant that removes the target inside the branch of the old message
DeleteTargetNested(uid, stock) ==
    IF IsRegistered(uid, stock)
    THEN /\ IF <<uid, stock>> \in DOMAIN user_messages
            THEN /\ deleted' = deleted \cup {user_messages[<<uid, stock>>]}
                 /\ user_messages' =
                      [k \in DOMAIN user_messages \ {<<uid, stock>>}
                         |-> user_messages[k]]
                 /\ user_targets' = RemoveTarget(uid, stock)
            ELSE UNCHANGED <<user_messages, deleted, user_targets>>
         /\ streak' = Interrupt(uid, stock)
         /\ Answer(ReplyAbout("deleted", uid, stock, <<>>, <<>>))
    ELSE /\ Answer(Reply("not_found"))
         /\ UNCHANGED <<user_targets, user_messages, deleted, streak>>

\* the body shared by delete_target_cmd and StockView.delete_target
DeleteTarget(uid, stock) ==
    IF IsRegistered(uid, stock)
    THEN /\ IF <<uid, stock>> \in DOMAIN user_messages
            THEN \E outcome \in DeleteOutcomes :
                    /\ deleted' = deleted \cup {user_messages[<<uid, stock>>]}
                    /\ user_messages' =
                         IF outcome = "ok"
                         THEN [k \in DOMAIN user_messages \ {<<uid, stock>>}
                                 |-> user_messages[k]]
                         ELSE user_messages
            ELSE UNCHANGED <<user_messages, deleted>>
         /\ user_targets' = RemoveTarget(uid, stock)
         /\ streak' = Interrupt(uid, stock)
         /\ Answer(ReplyAbout("deleted", uid, stock, <<>>, <<>>))
    ELSE /\ Answer(Reply("not_found"))
         /\ UNCHANGED <<user_targets, user_messages, deleted, streak>>

\* /หุ้น ลบ : delete_target_cmd
delete_target_cmd ==
    \E uid \in Users, sym \in SymbolInputs :
        /\ DeleteTarget(uid, Upper(sym))
        /\ interaction_user' = uid
        /\ UNCHANGED <<views, dm, registered, loopvars>>

\* StockView.delete_target: the delete button of a view
delete_target ==
    \E v \in views, clicker \in Users :
        /\ IF interaction_check(v[1], clicker)
           THEN DeleteTarget(v[1], v[2])
           ELSE /\ Answer(Reply("not_owner"))
                /\ UNCHANGED <<user_targets, user_messages, deleted, streak>>
        /\ interaction_user' = clicker
        /\ UNCHANGED <<views, dm, registered, loopvars>>

\* ------------------------------------------------------- the periodic task
\* user_roles.get(str(uid), 'regular')
RoleOf(uid) ==
    IF Str(uid) \in DOMAIN user_roles THEN user_roles[Str(uid)] ELSE "regular"

\* auto_check's test: VIP1 in every iteration, the others when minute % 5 == 0
IsDue(uid, minute) ==
    IF RoleOf(uid) = "VIP1" THEN TRUE ELSE minute % RegularPeriod = 0

\* a variant with strict comparisons
ShouldNotifyStrict(trigger_type, target, price) ==
    \/ trigger_type = "below" /\ price < target
    \/ trigger_type = "above" /\ price > target

\* price <= target for 'below', price >= target for 'above'
ShouldNotify(trigger_type, target, price) ==
    \/ trigger_type = "below" /\ price <= target
    \/ trigger_type = "above" /\ price >= target

\* a variant whose band includes the target price itself
ShouldNotifyApproachingInclusive(trigger_type, target, percent, price) ==
    \/ /\ trigger_type = "below"
       /\ target <= price
       /\ price * 100 <= target * (100 + percent)
    \/ /\ trigger_type = "above"
       /\ target >= price
       /\ price * 100 >= target * (100 - percent)

\* target < price <= target * (1 + p / 100) for 'below',
\* target > price >= target * (1 - p / 100) for 'above'
ShouldNotifyApproaching(trigger_type, target, percent, price) ==
    \/ /\ trigger_type = "below"
       /\ target < price
       /\ price * 100 <= target * (100 + percent)
    \/ /\ trigger_type = "above"
       /\ target > price
       /\ price * 100 >= target * (100 - percent)

\* the head of run_user_check's loop body: the three data.get() calls
StartEval(uid, item) ==
    [uid |-> uid, stock |-> item[1], data |-> item[2],
     target |-> item[2].target,
     trigger_type |-> item[2].trigger_type,
     alert_threshold_percent |-> item[2].alert_threshold_percent,
     price |-> None, fetches |-> 0, soon |-> FALSE,
     users |-> 0, levels |-> 0, levels_out |-> <<>>, sends |-> 0,
     approaching |-> "no", reached |-> "no", handle |-> 0]

\* the run of consecutive notifications of a target after evaluation e
StreakAfter(e) ==
    LET old == streak[<<e.uid, e.stock>>] IN
    [streak EXCEPT ![<<e.uid, e.stock>>] =
        [approaching |-> IF e.approaching = "sent"
                         THEN Append(old.approaching, e.handle) ELSE <<>>,
         reached |-> IF e.reached = "sent"
                     THEN Append(old.reached, e.handle) ELSE <<>>]]

\* a variant that runs the for loop over the user's dict itself
CurrentItemsLive == Get(user_targets, outer_items[outer_idx])

\* the items run_user_check's for loop runs over: the list made at its entry
CurrentItems == targets_items

\* the first user after position k whose targets are evaluated in this
\* iteration and who has one; 0 when there is none
NextDue(items, k, minute) ==
    LET due == { j \in (k + 1)..Len(items) :
                   /\ IsDue(items[j], minute)
                   /\ Get(user_targets, items[j]) # <<>> }
    IN IF due = {} THEN 0 ELSE CHOOSE j \in due : \A i \in due : j <= i

\* auto_check's for loop from position k on: run_user_check of the next due
\* user up to its first await, or the end of the iteration
NextUser(items, k, minute) ==
    LET j == NextDue(items, k, minute) IN
    IF j = 0
    THEN /\ pc' = "idle"
         /\ cur' = <<>>
         /\ outer_items' = <<>>
         /\ outer_idx' = 0
         /\ targets_items' = <<>>
         /\ inner_idx' = 0
         /\ current_minute' = minute
    ELSE /\ pc' = "price"
         /\ cur' = <<StartEval(items[j], Get(user_targets, items[j])[1])>>
         /\ outer_items' = items
         /\ outer_idx' = j
         /\ targets_items' = Get(user_targets, items[j])
         /\ inner_idx' = 1
         /\ current_minute' = minute

\* the end of one pass of run_user_check's loop body (also by continue):
\* on to the user's next target, else to the next user
NextTarget ==
    IF Len(CurrentItems) # Len(targets_items)
    THEN \* RuntimeError: dictionary changed size during iteration
         /\ raised' = TRUE
         /\ pc' = "idle"
         /\ cur' = <<>>
         /\ UNCHANGED <<outer_items, outer_idx, targets_items, inner_idx,
                        current_minute>>
    ELSE /\ raised' = raised
         /\ IF inner_idx < Len(CurrentItems)
            THEN /\ pc' = "price"
                 /\ cur' = <<StartEval(outer_items[outer_idx],
                                       CurrentItems[inner_idx + 1])>>
                 /\ inner_idx' = inner_idx + 1
                 /\ UNCHANGED <<outer_items, outer_idx, targets_items,
                                current_minute>>
            ELSE NextUser(outer_items, outer_idx, current_minute)

\* the evaluation in progress
Cur == cur[1]

\* something failed while evaluation e was processed: no price, no owner,
\* no levels, or an exception in the lookup or the delivery
Failed(e) ==
    \/ e.price = None
    \/ e.levels = 1 /\ e.levels_out = <<>>
    \/ e.approaching \in {"no_user", "failed"}
    \/ e.reached \in {"no_user", "failed"}

\* a variant where a failure ends the whole iteration and stops the task
FinishAbort(e) ==
    /\ last' = <<e>>
    /\ streak' = StreakAfter(e)
    /\ IF Failed(e)
       THEN /\ raised' = TRUE
            /\ pc' = "idle"
            /\ cur' = <<>>
            /\ UNCHANGED <<outer_items, outer_idx, targets_items, inner_idx,
                           current_minute>>
       ELSE NextTarget

\* evaluation e is over
Finish(e) ==
    /\ last' = <<e>>
    /\ streak' = StreakAfter(e)
    /\ NextTarget

\* evaluation e goes on to the await named a
Await(e, a) ==
    /\ pc' = a
    /\ cur' = <<e>>
    /\ UNCHANGED <<current_minute, outer_items, outer_idx, targets_items,
                   inner_idx, raised, streak, last>>

\* datetime.datetime.now().minute at the start of an iteration
NowMinutes ==
    IF cycle = 0 THEN StartMinutes
    ELSE IF \A s \in Symbols : fetched[s] = 0
    THEN \* the iteration before awaited nothing: this one starts on time
         { (current_minute + 1) % 60 }
    ELSE { (current_minute + d) % 60 : d \in Elapsed }

\* tasks.loop(seconds=60): one iteration of auto_check, up to its first await
auto_check ==
    /\ pc = "idle"
    /\ ~raised
    /\ cycle < MaxCycles
    /\ cycle' = cycle + 1
    /\ raised' = raised
    /\ last' = <<>>
    /\ fetched' = [s \in Symbols |-> 0]
    /\ \E minute \in NowMinutes :
          NextUser([i \in 1..Len(user_targets) |-> user_targets[i][1]],
                   0, minute)
    /\ UNCHANGED <<user_targets, user_messages, views, response, dm,
                   deleted, streak, registered, ncmds, interaction_user,
                   history, levels, cmd_bound>>

\* a variant that forgets a target once its notification went out
LoopFrameFireOnce ==
    /\ user_targets' =
         IF pc = "reached_send" /\ IsRegistered(Cur.uid, Cur.stock)
         THEN RemoveTarget(Cur.uid, Cur.stock) ELSE user_targets
    /\ UNCHANGED <<user_messages, response, deleted, registered, cycle,
                   ncmds, interaction_user, history, levels, cmd_bound>>

\* what the loop leaves alone whatever it does
LoopFrame == UNCHANGED <<user_targets, user_messages, response, deleted,
                         registered, cycle, ncmds, interaction_user,
                         history, levels, cmd_bound>>

\* a variant that has the technical levels computed before the test
CheckReachedEager(e) ==
    IF ShouldNotify(e.trigger_type, e.target, e.price)
    THEN Await([e EXCEPT !.levels = @ + 1], "reached_user")
    ELSE Finish([e EXCEPT !.levels = @ + 1])

\* the "target reached" test that follows the approaching block
CheckReached(e) ==
    IF ShouldNotify(e.trigger_type, e.target, e.price)
    THEN Await(e, "reached_user")
    ELSE Finish(e)

\* a variant that lets a missing price through to the tests
AfterPriceUnchecked(e) ==
    IF ShouldNotifyApproaching(e.trigger_type, e.target,
                               e.alert_threshold_percent, e.price)
    THEN Await(e, "approaching_user")
    ELSE CheckReached(e)

\* what follows the price fetch: continue on None, else the approaching test
AfterPrice(e) ==
    IF e.price = None
    THEN Finish(e)
    ELSE IF ShouldNotifyApproaching(e.trigger_type, e.target,
                                    e.alert_threshold_percent, e.price)
    THEN Await(e, "approaching_user")
    ELSE CheckReached(e)

\* whether a price fetch of stock can come less than 30 seconds after the
\* fetch of the same symbol before it: it can when this iteration has
\* fetched the symbol already
Soon(stock) == IF fetched[stock] > 0 THEN BOOLEAN ELSE {FALSE}

\* price = await async_fetch_price(stock): one call of the provider, which
\* gives whatever it quotes at that moment
fetch_price ==
    /\ pc = "price"
    /\ fetched' = [fetched EXCEPT ![Cur.stock] = @ + 1]
    /\ \E price \in Prices \cup {None}, soon \in Soon(Cur.stock) :
          AfterPrice([Cur EXCEPT !.price = price, !.fetches = @ + 1,
                                 !.soon = soon])
    /\ UNCHANGED <<dm, views>>
    /\ LoopFrame

\* what await self.fetch_user(uid) gives: a user, None, or an exception
FetchUserOutcomes == {"user", "None", "raise"}

\* user = await self.fetch_user(uid) of the approaching block
approaching_fetch_user ==
    /\ pc = "approaching_user"
    /\ \E outcome \in FetchUserOutcomes :
          LET e == [Cur EXCEPT !.users = @ + 1] IN
          IF outcome = "user" THEN Await(e, "approaching_levels")
          ELSE IF outcome = "None"
          THEN Finish([e EXCEPT !.approaching = "no_user"])
          ELSE CheckReached([e EXCEPT !.approaching = "failed"])
    /\ UNCHANGED <<dm, views, fetched>>
    /\ LoopFrame

\* the historical data the provider has while the loop runs: a frame for
\* ABC, and none for XYZ, whose fetch fails
HistoryOf(stock) ==
    IF stock = "ABC" THEN << <<Bar(11000, 9000, 10000)>> >> ELSE <<>>

\* a variant that gives the notification up when there are no levels
AfterLevelsRequired(e, send) ==
    IF e.levels_out = <<>> THEN Finish(e) ELSE Await(e, send)

\* after the levels await the embed is built and sent, levels or not
AfterLevels(e, send) == Await(e, send)

\* levels = await async_fetch_technical_levels(stock): a dict or None, which
\* decides whether the embed gets the three level fields
approaching_fetch_levels ==
    /\ pc = "approaching_levels"
    /\ AfterLevels([Cur EXCEPT
                       !.levels = @ + 1,
                       !.levels_out =
                           calculate_technical_levels(HistoryOf(Cur.stock))],
                   "approaching_send")
    /\ UNCHANGED <<dm, views, fetched>>
    /\ LoopFrame

\* the notification of evaluation e as it lies in the owner's DM channel
Message(e, kind) ==
    [uid |-> e.uid, stock |-> e.stock, kind |-> kind,
     levels |-> e.levels_out]

\* await user.send(embed=embed, view=view) of the approaching block
approaching_send ==
    /\ pc = "approaching_send"
    /\ \E ok \in BOOLEAN :
          LET e == [Cur EXCEPT !.sends = @ + 1] IN
          IF ok
          THEN /\ dm' = Append(dm, Message(e, "approaching"))
               /\ views' = views \cup {<<e.uid, e.stock>>}
               /\ CheckReached([e EXCEPT !.approaching = "sent",
                                         !.handle = Len(dm) + 1])
          ELSE /\ UNCHANGED <<dm, views>>
               /\ CheckReached([e EXCEPT !.approaching = "failed"])
    /\ UNCHANGED fetched
    /\ LoopFrame

\* user = await self.fetch_user(uid) of the target-reached block
reached_fetch_user ==
    /\ pc = "reached_user"
    /\ \E outcome \in FetchUserOutcomes :
          LET e == [Cur EXCEPT !.users = @ + 1] IN
          IF outcome = "user" THEN Await(e, "reached_levels")
          ELSE IF outcome = "None"
          THEN Finish([e EXCEPT !.reached = "no_user"])
          ELSE Finish([e EXCEPT !.reached = "failed"])
    /\ UNCHANGED <<dm, views, fetched>>
    /\ LoopFrame

\* levels = await async_fetch_technical_levels(stock) of that block
reached_fetch_levels ==
    /\ pc = "reached_levels"
    /\ AfterLevels([Cur EXCEPT
                       !.levels = @ + 1,
                       !.levels_out =
                           calculate_technical_levels(HistoryOf(Cur.stock))],
                   "reached_send")
    /\ UNCHANGED <<dm, views, fetched>>
    /\ LoopFrame

\* a variant that keeps the notification it sent as the target's alert
\* message
reached_sendKeeping ==
    /\ pc = "reached_send"
    /\ \E ok \in BOOLEAN :
          LET e == [Cur EXCEPT !.sends = @ + 1]
              key == <<e.uid, e.stock>>
          IN
          IF ok
          THEN /\ dm' = Append(dm, Message(e, "reached"))
               /\ views' = views \cup {key}
               /\ user_messages' =
                    [k \in DOMAIN user_messages \cup {key} |->
                        IF k = key THEN Len(dm) + 1 ELSE user_messages[k]]
               /\ Finish([e EXCEPT !.reached = "sent",
                                   !.handle = Len(dm) + 1])
          ELSE /\ UNCHANGED <<dm, views, user_messages>>
               /\ Finish([e EXCEPT !.reached = "failed"])
    /\ UNCHANGED <<fetched, user_targets, response, deleted, registered,
                   cycle, ncmds, interaction_user, history, levels,
                   cmd_bound>>

\* await user.send(embed=embed, view=view) of the target-reached block
reached_send ==
    /\ pc = "reached_send"
    /\ \E ok \in BOOLEAN :
          LET e == [Cur EXCEPT !.sends = @ + 1] IN
          IF ok
          THEN /\ dm' = Append(dm, Message(e, "reached"))
               /\ views' = views \cup {<<e.uid, e.stock>>}
               /\ Finish([e EXCEPT !.reached = "sent",
                                   !.handle = Len(dm) + 1])
          ELSE /\ UNCHANGED <<dm, views>>
               /\ Finish([e EXCEPT !.reached = "failed"])
    /\ UNCHANGED fetched
    /\ LoopFrame

Next ==
    \/ set_target_cmd
    \/ edit_target
    \/ on_submit
    \/ delete_target_cmd
    \/ delete_target
    \/ auto_check
    \/ fetch_price
    \/ approaching_fetch_user
    \/ approaching_fetch_levels
    \/ approaching_send
    \/ reached_fetch_user
    \/ reached_fetch_levels
    \/ reached_send

Spec == Init /\ [][Next]_vars

\* ------------------------------------- the levels computation on its own
InitLevels ==
    /\ InitBot
    /\ history \in Histories
    /\ levels = <<>>
    /\ cmd_bound = MaxCmds

\* async_fetch_technical_levels: calculate_technical_levels in the executor
async_fetch_technical_levels ==
    /\ levels = <<>>
    /\ levels' = <<calculate_technical_levels(history)>>
    /\ UNCHANGED <<history, botvars, cmd_bound>>

NextLevels == async_fetch_technical_levels

SpecLevels == InitLevels /\ [][NextLevels]_vars

\* -------------------------------- the interactions without the periodic task
InitCommands ==
    /\ InitBot
    /\ history = <<>>
    /\ levels = <<>>
    /\ cmd_bound = MaxCmdsAlone

NextCommands ==
    \/ set_target_cmd
    \/ edit_target
    \/ on_submit
    \/ delete_target_cmd
    \/ delete_target

SpecCommands == InitCommands /\ [][NextCommands]_vars

\* ------------------------------------------------------------------ claims
\* the evaluations on record: the one that ended last and the running one
Ended == { last[i] : i \in 1..Len(last) }
Running == { cur[i] : i \in 1..Len(cur) }

\* the trigger condition of the spec: at or below / at or above the target
ConditionHolds(e) ==
    \/ e.trigger_type = "below" /\ e.price <= e.target
    \/ e.trigger_type = "above" /\ e.price >= e.target

\* C1: after N >= 1 consecutive evaluated cycles that each sent the
\* target-reached notification of a target, user_messages records exactly
\* the newest handle for (owner, symbol) and delete was invoked on every
\* handle of the N-1 earlier cycles.
C1_AtMostOneLiveMessage ==
    \A p \in Pairs :
        LET sent == streak[p].reached IN
        Len(sent) >= 1 =>
            /\ p \in DOMAIN user_messages
            /\ user_messages[p] = sent[Len(sent)]
            /\ \A i \in 1..(Len(sent) - 1) : sent[i] \in deleted

\* C2: a target-reached notification goes out in an evaluation only if the
\* price fetched in it satisfies the target's condition, and it does go out
\* in every evaluation whose price satisfies it, unless the owner could not
\* be fetched or the delivery failed; so it goes out in the first cycle where
\* the condition holds and in none before.
C2_TriggerCorrectness ==
    /\ \A e \in Ended :
        /\ e.reached # "no" => e.price # None /\ ConditionHolds(e)
        /\ e.price # None /\ ConditionHolds(e) =>
              /\ e.reached \in {"sent", "no_user", "failed"}
              /\ e.reached = "sent" =>
                    /\ e.handle \in 1..Len(dm)
                    /\ dm[e.handle].uid = e.uid
                    /\ dm[e.handle].stock = e.stock
                    /\ dm[e.handle].kind = "reached"
    /\ \A e \in Running :
        pc \in {"reached_user", "reached_levels", "reached_send"} =>
            e.price # None /\ ConditionHolds(e)

\* C2 witness: the notification went out at a price equal to the target
C2_Witness ==
    \E e \in Ended :
        e.reached = "sent" /\ e.price = e.target /\ e.trigger_type = "below"

\* C3: Scenario A: a target set with owner, symbol, price 100 and 'below'
\* alone gets no notification of any kind at the prices 105 and 102 and, when
\* the delivery works, exactly one at the price 100.
C3_ScenarioA ==
    \A e \in Ended :
        e.data = TargetData(100, "below", DefaultThreshold) =>
            /\ e.price \in {105, 102} =>
                  e.sends = 0 /\ e.approaching = "no" /\ e.reached = "no"
            /\ e.price = 100 /\ e.reached = "sent" => e.sends = 1

\* C4: while a target's price stays in the approach band over consecutive
\* evaluated cycles, with no edit or delete in between, the approaching
\* notification goes out in the first of them only.
C4_ApproachWarnedOnce ==
    \A p \in Pairs : Len(streak[p].approaching) <= 1

\* C5: an evaluation whose price fetch gave None sends nothing, fetches no
\* user and no technical levels, and leaves user_targets and user_messages
\* as they were.
C5_PriceUnavailableSkips ==
    /\ [](/\ \A e \in Ended :
              e.price = None =>
                 /\ e.users = 0 /\ e.levels = 0 /\ e.sends = 0
                 /\ e.approaching = "no" /\ e.reached = "no"
          /\ \A e \in Running : pc # "price" => e.price # None)
    /\ [][(pc = "price" /\ fetched' # fetched /\ last' # last
             /\ \A e \in Ended' : e.price = None)
          => UNCHANGED <<user_targets, user_messages, dm, views>>]_vars

\* C5 witness: an evaluation ended on a missing price while its target stayed
C5_Witness ==
    \E e \in Ended :
        e.price = None /\ e.fetches = 1 /\ IsRegistered(e.uid, e.stock)

\* C6: with two owners on one symbol, one iteration of auto_check fetches
\* that symbol's price once, and both targets are evaluated on that price.
C6_OneFetchPerSymbol ==
    /\ \A s \in Symbols : fetched[s] <= 1
    /\ \A a \in Ended, b \in Running :
          a.stock = b.stock /\ a.price # None /\ b.price # None
              => a.price = b.price

\* C7: when the direct message of a notification fails, a fallback route is
\* tried once in the same cycle (a second send of that evaluation).
C7_FallbackOnDeliveryFailure ==
    \A e \in Ended :
        e.sends >= 1 /\ (e.approaching = "failed" \/ e.reached = "failed")
            => e.sends = 2

\* C8: no step of auto_check / run_user_check changes user_targets or
\* user_messages, whatever the outcome of the step.
C8_LoopWritesNothing ==
    [][<<pc, cur, last, fetched, cycle, dm, raised>>'
          # <<pc, cur, last, fetched, cycle, dm, raised>>
       => UNCHANGED <<user_targets, user_messages>>]_vars

\* C8 witness: the owner deleted the target while its evaluation was running;
\* the notification went out and the target is still gone when the cycle ends
C8_Witness ==
    /\ pc = "idle"
    /\ response.kind = "deleted"
    /\ \E e \in Ended :
          e.reached = "sent" /\ ~IsRegistered(e.uid, e.stock)

\* C9: commands that run at the await points of a cycle never make it raise,
\* and every evaluation uses a target price, trigger type and threshold that
\* come from one and the same registration.
C9_StableSnapshot ==
    /\ ~raised
    /\ \A e \in Ended \cup Running :
          TargetData(e.target, e.trigger_type, e.alert_threshold_percent)
              \in registered[<<e.uid, e.stock>>]

\* C9 witness: the user's dict changed size under the running loop, and the
\* record being evaluated is no longer the registered one
C9_Witness ==
    /\ pc = "reached_send"
    /\ Len(Get(user_targets, outer_items[outer_idx])) # Len(targets_items)
    /\ \E e \in Running : ~IsRegistered(e.uid, e.stock)

\* C10: a target keeps firing in every cycle its condition holds, each
\* notification replacing the one before, so that of the target-reached
\* notifications of one unbroken run only the newest is still live.
C10_PersistAndReplace ==
    \A p \in Pairs :
        Cardinality({ i \in 1..Len(streak[p].reached) :
                        streak[p].reached[i] \notin deleted }) <= 1

\* the record stored for (uid, stock) in registry ut: <<data>>, or <<>>
Lookup(ut, uid, stock) ==
    IF Has(ut, uid) /\ Has(Get(ut, uid), stock)
    THEN <<Get(Get(ut, uid), stock)>> ELSE <<>>

\* how many entries dict d has under key k
Count(d, k) == Cardinality({ i \in 1..Len(d) : d[i][1] = k })

\* C11: when a set command completes, the registry holds exactly one record
\* for its (owner, symbol), all three fields of it are the command's, also
\* when the pair had a record before, and the records of all other pairs are
\* as they were.
C11_RegistryUpsert ==
    [][(ncmds' # ncmds /\ response'.kind = "set_ok") =>
          LET uid == response'.uid
              stock == response'.stock
          IN /\ Count(user_targets', uid) = 1
             /\ Count(Get(user_targets', uid), stock) = 1
             /\ Lookup(user_targets', uid, stock) = response'.data
             /\ \A p \in Pairs \ {<<uid, stock>>} :
                   Lookup(user_targets', p[1], p[2])
                       = Lookup(user_targets, p[1], p[2])]_vars

\* C11 witness: the second of two set commands for one pair, with other
\* values than the first, has completed
C11_Witness ==
    /\ response.kind = "set_ok"
    /\ ncmds = 2
    /\ Cardinality(registered[<<response.uid, response.stock>>]) = 2
    /\ Lookup(user_targets, response.uid, response.stock) = response.data

DueAfter(items, k, minute) ==
    { j \in (k + 1)..Len(items) :
        /\ IsDue(items[j], minute)
        /\ \E s \in Symbols : IsRegistered(items[j], s) }

\* C13: a failure in the evaluation of one target (no price, owner lookup
\* failing or giving None, delivery failing) never ends the iteration: the
\* next target of the same owner is evaluated next, after the owner's last
\* target the first target of the next due owner, and after the last owner
\* the iteration ends normally, the task never having raised.
C13_FailureIsolation ==
    /\ [](~raised)
    /\ [][(last' # last /\ last' # <<>> /\ Failed(last'[1])) =>
            IF inner_idx < Len(targets_items)
            THEN /\ pc' = "price"
                 /\ cur'[1].uid = last'[1].uid
                 /\ cur'[1].stock = targets_items[inner_idx + 1][1]
                 /\ cur'[1].fetches = 0
            ELSE LET due == DueAfter(outer_items, outer_idx, current_minute)
                 IN IF due = {}
                    THEN pc' = "idle" /\ cur' = <<>>
                    ELSE /\ pc' = "price"
                         /\ \E j \in due :
                               /\ \A i \in due : j <= i
                               /\ cur'[1].uid = outer_items[j]
                         /\ cur'[1].fetches = 0]_vars

\* C13 witness: after a failed evaluation the same owner's next target is
\* being evaluated, its price fetched
C13_Witness ==
    \E a \in Ended, b \in Running :
        /\ Failed(a)
        /\ a.uid = b.uid
        /\ a.stock # b.stock
        /\ b.price # None

\* the approach band of the spec: the condition not met yet, and the price
\* within p percent of the target on the side it approaches from
InBand(e) ==
    LET p == e.alert_threshold_percent IN
    /\ ~ConditionHolds(e)
    /\ \/ e.trigger_type = "below"
             /\ 100 * (e.price - e.target) <= p * e.target
       \/ e.trigger_type = "above"
             /\ 100 * (e.target - e.price) <= p * e.target

\* C14: an evaluation that got a price attempts the approaching notification
\* exactly when the price is in the approach band of the evaluated record,
\* and never when the threshold is 0.
C14_ApproachBand ==
    /\ \A e \in Ended :
          e.price # None =>
             /\ e.approaching # "no" <=> InBand(e)
             /\ e.alert_threshold_percent = 0 => e.approaching = "no"
    /\ \A e \in Running :
          pc \in {"approaching_user", "approaching_levels", "approaching_send"}
              => e.price # None /\ InBand(e) /\ e.alert_threshold_percent # 0

\* C14 witness: a warning went out for an 'above' target at the lower edge
\* of its band
C14_Witness ==
    \E e \in Ended :
        /\ e.approaching = "sent" /\ e.trigger_type = "above"
        /\ e.price < e.target
        /\ e.price * 100 = e.target * (100 - e.alert_threshold_percent)

\* C15: a regular owner's targets are evaluated only in iterations that start
\* in a minute divisible by 5, and the iterations start in consecutive
\* minutes, one per minute, so that a VIP1 owner is evaluated once in every
\* minute and a regular owner once in every window of 5 minutes.
C15_Cadence ==
    /\ [](\A e \in Running :
             RoleOf(e.uid) # "VIP1" => current_minute % RegularPeriod = 0)
    /\ [][(cycle' = cycle + 1 /\ cycle >= 1)
             => current_minute' = (current_minute + 1) % 60]_vars

\* C16: a price lookup that comes within 30 seconds of the lookup of the same
\* symbol before it calls the provider no more and gives the value that
\* lookup gave.
C16_IdempotentPriceCache ==
    /\ \A b \in Ended \cup Running : b.soon => b.fetches = 0
    /\ \A a \in Ended, b \in Running :
          b.soon /\ a.stock = b.stock /\ a.fetches = 1 => b.price = a.price

Sent(e) == e.approaching = "sent" \/ e.reached = "sent"

\* C18: an evaluation whose levels computation gave None goes on to its send
\* all the same, and the notification it delivers has no level fields; one
\* whose computation gave levels delivers them.
C18_MissingLevelsDoNotBlock ==
    /\ \A e \in Ended :
          e.levels = 1 =>
             /\ e.sends = 1
             /\ Sent(e) =>
                   /\ dm[e.handle].uid = e.uid
                   /\ dm[e.handle].stock = e.stock
                   /\ dm[e.handle].levels = e.levels_out
    /\ \A e \in Running :
          e.levels = 1 /\ e.levels_out = <<>>
              => pc \in {"approaching_send", "reached_send"}

\* C18 witness: a target-reached notification was delivered although the
\* levels computation had given None, and it shows no levels
C18_Witness ==
    \E e \in Ended :
        /\ e.reached = "sent"
        /\ e.levels = 1 /\ e.levels_out = <<>>
        /\ dm[e.handle].levels = <<>>
        /\ dm[e.handle].kind = "reached"

\* the window is degenerate: its highest High equals its lowest Low
Degenerate(rows) == rows # <<>> /\ MaxHigh(rows) = MinLow(rows)

\* C19: on a window whose highest High equals its lowest Low,
\* calculate_technical_levels gives a result (no error) that has no fib_s1
\* and no fib_r1.
C19_FibonacciDegeneracy ==
    (levels # <<>> /\ history # <<>> /\ Degenerate(history[1])) =>
        /\ levels[1] # <<>>
        /\ "fib_s1" \notin DOMAIN levels[1][1]
        /\ "fib_r1" \notin DOMAIN levels[1][1]

\* C20: a submitted edit form with a numeric price stores 'below' for the
\* condition texts 'ราคาต่ำกว่า' and 'ต่ำกว่า', stores 'above' for
\* 'ราคาสูงกว่า', and is rejected for every other condition text.
C20_EditConditionInputs ==
    response.kind \in {"edit_ok", "bad_condition"} =>
        LET stored == Lookup(user_targets, response.uid, response.stock) IN
        /\ response.text \in {<<"raka", "tamkwa">>, <<"tamkwa">>} =>
              /\ response.kind = "edit_ok"
              /\ stored = response.data
              /\ stored[1].trigger_type = "below"
        /\ response.text = <<"raka", "sungkwa">> =>
              /\ response.kind = "edit_ok"
              /\ stored = response.data
              /\ stored[1].trigger_type = "above"
        /\ response.text \notin {<<"raka", "tamkwa">>, <<"tamkwa">>,
                                 <<"raka", "sungkwa">>} =>
              response.kind = "bad_condition"

\* the answers that report an error of the command itself
Rejections ==
    {"bad_threshold", "no_price", "bad_number", "bad_condition", "not_found"}

\* C21: a set command with a threshold outside [0, 100] or without a price,
\* an edit submit with a non-numeric price or an unrecognised condition, and
\* a delete of a target that is not registered are answered with their error
\* and leave user_targets and user_messages as they were.
C21_RejectedChangeNothing ==
    [][(ncmds' # ncmds /\ response'.kind \in Rejections)
          => UNCHANGED <<user_targets, user_messages>>]_vars

\* C21 witness: a set command was rejected for its price while the registry
\* held a target
C21_Witness ==
    /\ response.kind = "no_price"
    /\ \E p \in Pairs : IsRegistered(p[1], p[2])

\* C22: at the step that sends a notification for (owner, symbol), the target
\* is registered in user_targets with the target price and the trigger type
\* the notification shows, also when the owner deleted or re-set the target
\* while the evaluation was awaiting a price, user or levels fetch.
C22_NotifiedTargetIsRegistered ==
    [][dm' # dm =>
          LET e == Cur
              now == Lookup(user_targets, e.uid, e.stock)
          IN /\ now # <<>>
             /\ now[1].target = e.target
             /\ now[1].trigger_type = e.trigger_type]_vars

\* C23: a target removed by delete is absent from user_targets until its
\* owner issues a new set command: a step that registers a pair which was
\* deleted is a successful set command of that owner; and an edit submit acts
\* on a registered target, whose alert_threshold_percent it keeps.
C23_DeletedStaysDeleted ==
    [][/\ \A p \in Pairs :
            ( /\ registered[p] # {}
              /\ Lookup(user_targets, p[1], p[2]) = <<>>
              /\ Lookup(user_targets', p[1], p[2]) # <<>> )
            => ( /\ response'.kind = "set_ok"
                 /\ response'.uid = p[1]
                 /\ response'.stock = p[2] )
       /\ (ncmds' # ncmds /\ response'.kind = "edit_ok")
            => LET before == Lookup(user_targets, response'.uid,
                                    response'.stock)
                   after == Lookup(user_targets', response'.uid,
                                   response'.stock)
               IN /\ before # <<>>
                  /\ after[1].alert_threshold_percent
                        = before[1].alert_threshold_percent]_vars

\* the grid the two conditions are compared on: the ends and the default of
\* the thresholds [0, 100], and prices below, at and above the target and on
\* and beyond the edges of its bands
GridTypes == {"below", "above"}
GridTargets == {100}
GridPercents == {MinThreshold, DefaultThreshold, MaxThreshold}
GridPrices == {0, 95, 100, 105, 200, 201}

\* C24: the approaching condition and the target-reached condition exclude
\* each other for every price, target, trigger type and threshold in
\* [0, 100], so that one evaluation of a target by run_user_check attempts at
\* most one notification.
C24_AtMostOneMessage ==
    /\ \A trigger_type \in GridTypes, target \in GridTargets,
          percent \in GridPercents, price \in GridPrices :
          ~( /\ ShouldNotifyApproaching(trigger_type, target, percent, price)
             /\ ShouldNotify(trigger_type, target, price) )
    /\ \A e \in Ended \cup Running :
          /\ e.sends <= 1
          /\ e.approaching = "no" \/ e.reached = "no"

\* C24 witness: a warning went out for a 'below' target at the upper edge of
\* its band, and it was the one message of the evaluation
C24_Witness ==
    \E e \in Ended :
        /\ e.trigger_type = "below"
        /\ e.price * 100 = e.target * (100 + e.alert_threshold_percent)
        /\ e.price > e.target
        /\ e.approaching = "sent" /\ e.reached = "no" /\ e.sends = 1

\* what the two dictionaries hold for user u: whether user_targets has the
\* key, the targets under it, and the alert messages of u's targets
RecordsOf(ut, um, u) ==
    [has |-> Has(ut, u),
     targets |-> IF Has(ut, u) THEN Get(ut, u) ELSE <<>>,
     messages |-> { <<k, um[k]>> : k \in { q \in DOMAIN um : q[1] = u } }]

\* C25: an interaction of user A changes nothing that the dictionaries hold
\* for another user; a command or form that answers about a target answers
\* about a target of the interacting user; and a button of a view pressed by
\* someone else than the view's owner is refused and changes nothing.
C25_OwnerIsolation ==
    [][ncmds' # ncmds =>
          /\ \A u \in Users \ {interaction_user'} :
                RecordsOf(user_targets', user_messages', u)
                   = RecordsOf(user_targets, user_messages, u)
          /\ response'.kind \in {"set_ok", "edit_ok", "bad_condition",
                                 "deleted"}
                => response'.uid = interaction_user'
          /\ response'.kind = "not_owner"
                => UNCHANGED <<user_targets, user_messages>>]_vars

\* C25 witness: a user pressed a button of a view that another user owns,
\* while a target of that owner was registered, and was refused
C25_Witness ==
    /\ response.kind = "not_owner"
    /\ \E v \in views :
          /\ v[1] # interaction_user
          /\ IsRegistered(v[1], v[2])
          /\ \A w \in views : w[1] = v[1]

\* C26: user_messages is empty in every reachable state: nothing stores into
\* it, so that the clean-up branch of the two deletes is never taken and the
\* bot deletes no notification it has sent.
C26_NoAlertMessageKept ==
    /\ DOMAIN user_messages = {}
    /\ deleted = {}

\* C26 witness: a target was deleted for which a target-reached notification
\* had gone out before
C26_Witness ==
    /\ response.kind = "deleted"
    /\ \E i \in 1..Len(dm) :
          /\ dm[i].kind = "reached"
          /\ dm[i].uid = response.uid
          /\ dm[i].stock = response.stock

====
